---- MODULE Spec2Model ----
(***************************************************************************)
(* Model of the compatibility shims of the single-cell analysis blueprint: *)
(*   - scripts/pca_compatibility_fix.py   (notebook cell injection)        *)
(*   - patches/pca_safe_execution.py      (execution wrapper)              *)
(*   - patches/anndata_compat.py, patches/pca_compat.py                    *)
(*   - patches/unified_compat.py          (CompatibilityManager)           *)
(*   - patches/startup_compat.py          (startup script)                 *)
(* The file system seen by the two command-line scripts and the            *)
(* interpreter state mutated by the patches are the state of the model.    *)
(***************************************************************************)
EXTENDS Integers, Sequences, FiniteSets, TLC

VARIABLES
    fs,              \* path -> file content
    unwritable,      \* paths that cannot be opened for writing
    fsBefore,        \* the file system when the last script run started
    run,             \* the last script run: script, argv, exit code, exception
    nRuns,           \* number of script runs so far
    anndataImport,   \* outcome of importing anndata.experimental
    adx,             \* attribute table of anndata.experimental
    scanpyImport,    \* outcome of importing scanpy / scanpy.plotting
    scpl,            \* attribute table of scanpy.plotting
    excepthook,      \* number of resilient_excepthook layers on sys.excepthook
    applied_patches, \* compat_manager.applied_patches
    notebook_name,   \* compat_manager.notebook_name
    call,            \* the last top-level call into the patch modules
    nCalls,          \* number of top-level calls so far
    nPcaApply        \* apply_pca_compatibility calls that found scanpy and pca

fileVars == <<fs, unwritable, fsBefore, run, nRuns>>
patchVars == <<anndataImport, adx, scanpyImport, scpl, excepthook,
               applied_patches, notebook_name, call, nCalls, nPcaApply>>
vars == <<fs, unwritable, fsBefore, run, nRuns, anndataImport, adx,
          scanpyImport, scpl, excepthook, applied_patches, notebook_name,
          call, nCalls, nPcaApply>>

(***************************************************************************)
(* Bounds of the model.                                                    *)
(***************************************************************************)
MaxCells == 28       \* longest notebook among the initial files
MaxRuns == 1         \* script runs in one behaviour
MaxCalls == 3        \* top-level patch calls in one behaviour
MaxDepth == 3        \* frames a call of scanpy.plotting.pca may nest

(***************************************************************************)
(* Exception messages are sequences of tokens.  Lower is str.lower() on a  *)
(* token; Subs is the set of the keywords the code searches for that occur *)
(* in a token as a substring (case-sensitive, as Python's "in").           *)
(***************************************************************************)
Lower(tok) ==
    CASE tok = "PCA" -> "pca"
      [] tok = "'PCA'" -> "'pca'"
      [] tok = "KeyError" -> "keyerror"
      [] tok = "KeyError:" -> "keyerror:"
      [] tok = "'X_pca'" -> "'x_pca'"
      [] tok = "Kernel" -> "kernel"
      [] tok = "NameError:" -> "nameerror:"
      [] tok = "No" -> "no"
      [] OTHER -> tok

Subs(tok) ==
    CASE tok \in {"pca", "'pca'", "'X_pca'", "'x_pca'", "'pca_compat'"} -> {"pca"}
      [] tok \in {"keyerror", "keyerror:"} -> {"keyerror"}
      [] tok = "plotting" -> {"plotting"}
      [] OTHER -> {}

LowerMsg(msg) == [i \in 1..Len(msg) |-> Lower(msg[i])]

Contains(sub, msg) == \E i \in 1..Len(msg) : sub \in Subs(msg[i])

NoExc == [type |-> "None", msg |-> <<>>]
Exc(t, m) == [type |-> t, msg |-> m]

(***************************************************************************)
(* Interpreter state.  A state is a record st:                             *)
(*   anndataImport, scanpyImport : "ok" | "missing" | "broken"             *)
(*   adx   : attributes of anndata.experimental                            *)
(*   scpl  : attributes of scanpy.plotting                                 *)
(*   excepthook, applied, name : sys.excepthook layers and the manager     *)
(*   invoked : the patch functions entered during the current call         *)
(*   exc     : the exception propagating out of the current call           *)
(***************************************************************************)
Absent == "<absent>"
NoneVal == "<None>"
read_elem_lazy_fn == "anndata.read_elem_lazy"
legacy_dask_fn == "anndata.read_elem_as_dask(legacy)"
orig_pca_fn == "scanpy.plotting.pca(original)"
safe_pca_unified == "unified_compat.safe_pca"
safe_pca_compat == "pca_compat.safe_pca"

Nb01 == "01_scRNA_analysis_preprocessing"
Nb04 == "04_scRNA_analysis_dask_out_of_core"
Nb05 == "05_scRNA_analysis_multi_GPU"
Nb02 == "02_scRNA_analysis_extended"
RecognizedNames == {Nb01, Nb04, Nb05}
NameArgs == {NoneVal, "", Nb01, Nb02, Nb04, Nb05}
\* values of NOTEBOOK_NAME and of argv[1]; NoneVal: unset, not given
StartupValues == {NoneVal, "", Nb01, Nb02, Nb04}

Truthy(v) == v # NoneVal /\ v # ""

Enter(st, fn) == [st EXCEPT !.invoked = @ \cup {fn}]
Raise(st, e) == [st EXCEPT !.exc = e]
Raised(st) == st.exc.type # "None"

BrokenImport == Exc("RuntimeError", <<"numba", "needs", "NumPy">>)
NoPcaAttr == Exc("AttributeError",
                 <<"module", "'scanpy.plotting'", "has", "no", "attribute", "'pca'">>)

AliasBodyNoAssign(st, record) == st

AliasBodyOverwrite(st, record) ==
    IF st.anndataImport # "ok" \/ st.adx.read_elem_lazy = Absent
    THEN st
    ELSE [st EXCEPT !.adx.read_elem_as_dask = st.adx.read_elem_lazy,
                    !.applied = IF record
                                THEN Append(@, "anndata_read_elem_as_dask")
                                ELSE @]

\* The body both anndata patches share (anndata_compat.py 9-24,
\* unified_compat.py 31-46); record says whether applied_patches is kept.
AliasBody(st, record) ==
    IF st.anndataImport # "ok" \/ st.adx.read_elem_lazy = Absent
    THEN st   \* except Exception: message, return
    ELSE IF st.adx.read_elem_as_dask # Absent
    THEN st   \* "read_elem_as_dask already available"
    ELSE [st EXCEPT !.adx.read_elem_as_dask = st.adx.read_elem_lazy,
                    !.applied = IF record
                                THEN Append(@, "anndata_read_elem_as_dask")
                                ELSE @]

patch_anndata(st) == AliasBody(Enter(st, "patch_anndata"), FALSE)

apply_anndata_compatibility(st) ==
    AliasBody(Enter(st, "apply_anndata_compatibility"), TRUE)

PcaBodyNoGuard(st, wrapper, record) ==
    IF st.scanpyImport = "missing" THEN st
    ELSE IF st.scanpyImport = "broken" THEN Raise(st, BrokenImport)
    ELSE IF st.scpl.pca = Absent THEN Raise(st, NoPcaAttr)
    ELSE [st EXCEPT !.scpl._original_pca = st.scpl.pca,
                    !.scpl.pca = wrapper,
                    !.applied = IF record
                                THEN Append(@, "pca_plotting_safety")
                                ELSE @]

\* The body both PCA patches share (pca_compat.py 20-47,
\* unified_compat.py 50-77): only ImportError is caught.
PcaBody(st, wrapper, record) ==
    IF st.scanpyImport = "missing" THEN st   \* except ImportError
    ELSE IF st.scanpyImport = "broken" THEN Raise(st, BrokenImport)
    ELSE IF st.scpl._original_pca = Absent /\ st.scpl.pca = Absent
    THEN Raise(st, NoPcaAttr)
    ELSE [st EXCEPT !.scpl._original_pca = IF @ = Absent THEN st.scpl.pca ELSE @,
                    !.scpl.pca = wrapper,
                    !.applied = IF record
                                THEN Append(@, "pca_plotting_safety")
                                ELSE @]

patch_pca_compatibility(st) ==
    PcaBody(Enter(st, "patch_pca_compatibility"), safe_pca_compat, FALSE)

apply_pca_compatibility(st) ==
    PcaBody(Enter(st, "apply_pca_compatibility"), safe_pca_unified, TRUE)

apply_general_resilience(st) ==
    [Enter(st, "apply_general_resilience") EXCEPT
        !.excepthook = @ + 1,
        !.applied = Append(@, "general_resilience")]

\* A statement after a call runs only if the call returned normally.
general_resilience_after(st) ==
    IF Raised(st) THEN st ELSE apply_general_resilience(st)

apply_all_patches(st) ==
    LET a == apply_anndata_compatibility(Enter(st, "apply_all_patches"))
    IN  general_resilience_after(IF Raised(a) THEN a ELSE apply_pca_compatibility(a))

apply_notebook_specific_patches_all(st) ==
    LET s == Enter(st, "apply_notebook_specific_patches") IN
    IF s.name \in {Nb01}
    THEN general_resilience_after(apply_pca_compatibility(s))
    ELSE IF s.name \in {Nb04, Nb05}
    THEN general_resilience_after(apply_anndata_compatibility(s))
    ELSE apply_all_patches(s)

apply_notebook_specific_patches(st) ==
    LET s == Enter(st, "apply_notebook_specific_patches") IN
    IF ~Truthy(s.name) THEN apply_all_patches(s)
    ELSE IF s.name \in {Nb01}
    THEN general_resilience_after(apply_pca_compatibility(s))
    ELSE IF s.name \in {Nb04, Nb05}
    THEN general_resilience_after(apply_anndata_compatibility(s))
    ELSE apply_general_resilience(s)

set_notebook_context(st, name) ==
    [Enter(st, "set_notebook_context") EXCEPT !.name = name]

setup_compatibility(st, name) ==
    LET s == Enter(st, "setup_compatibility") IN
    apply_notebook_specific_patches(
        IF Truthy(name) THEN set_notebook_context(s, name) ELSE s)

\* startup_compat.py 17-27: the value handed to setup_compatibility
\* (NoneVal when it is called without a name).
startup_notebook_name_arg_first(env, argv1) == IF argv1 # NoneVal THEN argv1 ELSE env

startup_notebook_name(env, argv1) == IF env # NoneVal THEN env ELSE argv1

startup_arg(env, argv1) ==
    IF Truthy(startup_notebook_name(env, argv1))
    THEN startup_notebook_name(env, argv1)
    ELSE NoneVal

startup_compat(st, env, argv1) ==
    setup_compatibility(Enter(st, "startup_compat"), startup_arg(env, argv1))

(***************************************************************************)
(* Calling scanpy.plotting.pca.  orig is what the original plotting        *)
(* function does on this call: its return value and the exception it       *)
(* raises.  The result records how many times the original ran.            *)
(***************************************************************************)
OrigBehaviours ==
    {[ret |-> "figure", exc |-> NoExc],
     [ret |-> NoneVal, exc |-> Exc("KeyError", <<"'pca'">>)],
     [ret |-> NoneVal, exc |-> Exc("KeyError", <<"'X_pca'">>)],
     [ret |-> NoneVal, exc |-> Exc("KeyError", <<"'PCA'">>)],
     [ret |-> NoneVal, exc |-> Exc("KeyError", <<"'louvain'">>)],
     [ret |-> NoneVal, exc |-> Exc("ValueError", <<"no", "pca", "basis">>)],
     [ret |-> NoneVal, exc |-> Exc("TypeError", <<"bad", "color">>)]}

\* 'pca' in str(e); str(KeyError(k)) is repr(k), the key in quotes.
MentionsPca(e) == Contains("pca", e.msg)

safe_pca_handler_any_key(r) ==
    IF r.exc.type = "KeyError"
    THEN [r EXCEPT !.exc = NoExc, !.ret = NoneVal]
    ELSE r

\* safe_pca's except clause (unified_compat.py 62-69, pca_compat.py 33-43)
safe_pca_handler(r) ==
    IF r.exc.type = "KeyError" /\ MentionsPca(r.exc)
    THEN [r EXCEPT !.exc = NoExc, !.ret = NoneVal]
    ELSE r

RECURSIVE Invoke(_, _, _, _)
Invoke(f, tbl, orig, fuel) ==
    IF f = orig_pca_fn
    THEN [ret |-> orig.ret, exc |-> orig.exc, origCalls |-> 1, frames |-> 1]
    ELSE IF fuel = 0
    THEN [ret |-> NoneVal, exc |-> Exc("RecursionError", <<"maximum", "recursion">>),
          origCalls |-> 0, frames |-> 1]
    ELSE IF tbl._original_pca = Absent
    THEN [ret |-> NoneVal,
          exc |-> Exc("AttributeError", <<"no", "attribute", "'_original_pca'">>),
          origCalls |-> 0, frames |-> 1]
    ELSE LET r == Invoke(tbl._original_pca, tbl, orig, fuel - 1)
         IN safe_pca_handler([r EXCEPT !.frames = @ + 1])

(***************************************************************************)
(* The interpreter: initial states and one action per entry point.         *)
(***************************************************************************)
NoOrig == [ret |-> NoneVal, exc |-> NoExc]

Cur == [anndataImport |-> anndataImport, scanpyImport |-> scanpyImport,
        adx |-> adx, scpl |-> scpl, excepthook |-> excepthook,
        applied |-> applied_patches, name |-> notebook_name,
        invoked |-> {}, exc |-> NoExc]

NoCall == [fn |-> "none", arg |-> NoneVal, env |-> NoneVal, argv1 |-> NoneVal,
           invoked |-> {}, exc |-> NoExc, ret |-> NoneVal, orig |-> NoOrig,
           origCalls |-> 0, frames |-> 0, nameBefore |-> NoneVal,
           adxBefore |-> [read_elem_lazy |-> Absent, read_elem_as_dask |-> Absent],
           appliedBefore |-> <<>>]

InitPatch ==
    /\ anndataImport \in {"ok", "missing", "broken"}
    /\ adx \in [read_elem_lazy : {Absent, read_elem_lazy_fn},
                read_elem_as_dask : {Absent, legacy_dask_fn}]
    /\ (anndataImport # "ok" =>
          adx = [read_elem_lazy |-> Absent, read_elem_as_dask |-> Absent])
    /\ scanpyImport \in {"ok", "missing", "broken"}
    /\ scpl \in [pca : {Absent, orig_pca_fn}, _original_pca : {Absent}]
    /\ (scanpyImport # "ok" => scpl.pca = Absent)
    /\ excepthook = 0
    /\ applied_patches = <<>>
    /\ notebook_name = NoneVal
    /\ call = NoCall
    /\ nCalls = 0
    /\ nPcaApply = 0

\* Commit the state st a call ends in, and record the call.
Commit(fn, arg, env, argv1, st) ==
    /\ nCalls < MaxCalls
    /\ nCalls' = nCalls + 1
    /\ adx' = st.adx
    /\ scpl' = st.scpl
    /\ excepthook' = st.excepthook
    /\ applied_patches' = st.applied
    /\ notebook_name' = st.name
    /\ nPcaApply' = nPcaApply + IF "apply_pca_compatibility" \in st.invoked THEN 1 ELSE 0
    /\ call' = [NoCall EXCEPT !.fn = fn, !.arg = arg, !.env = env, !.argv1 = argv1,
                              !.invoked = st.invoked, !.exc = st.exc,
                              !.nameBefore = notebook_name, !.adxBefore = adx,
                              !.appliedBefore = applied_patches]
    /\ UNCHANGED <<anndataImport, scanpyImport>>
    /\ UNCHANGED fileVars

CallPatchAnndata ==
    Commit("patch_anndata", NoneVal, NoneVal, NoneVal, patch_anndata(Cur))

CallPatchPcaCompatibility ==
    Commit("patch_pca_compatibility", NoneVal, NoneVal, NoneVal,
           patch_pca_compatibility(Cur))

CallApplyAnndataCompatibility ==
    Commit("apply_anndata_compatibility", NoneVal, NoneVal, NoneVal,
           apply_anndata_compatibility(Cur))

CallApplyPcaCompatibility ==
    Commit("apply_pca_compatibility", NoneVal, NoneVal, NoneVal,
           apply_pca_compatibility(Cur))

CallApplyGeneralResilience ==
    Commit("apply_general_resilience", NoneVal, NoneVal, NoneVal,
           apply_general_resilience(Cur))

CallApplyNotebookSpecificPatches ==
    Commit("apply_notebook_specific_patches", NoneVal, NoneVal, NoneVal,
           apply_notebook_specific_patches(Cur))

CallApplyAllPatches ==
    Commit("apply_all_patches", NoneVal, NoneVal, NoneVal, apply_all_patches(Cur))

CallSetupCompatibility ==
    \E name \in NameArgs :
        Commit("setup_compatibility", name, NoneVal, NoneVal,
               setup_compatibility(Cur, name))

RunStartupCompat ==
    \E env \in StartupValues, argv1 \in StartupValues :
        Commit("startup_compat", startup_arg(env, argv1), env, argv1,
               startup_compat(Cur, env, argv1))

\* A notebook cell calls sc.pl.pca(...) after the patches.
CallPlottingPca ==
    /\ nCalls < MaxCalls
    /\ scanpyImport = "ok"
    /\ scpl.pca # Absent
    /\ \E orig \in OrigBehaviours :
         LET r == Invoke(scpl.pca, scpl, orig, MaxDepth) IN
         call' = [NoCall EXCEPT !.fn = "scanpy.plotting.pca", !.orig = orig,
                                !.exc = r.exc, !.ret = r.ret,
                                !.origCalls = r.origCalls, !.frames = r.frames,
                                !.nameBefore = notebook_name, !.adxBefore = adx,
                                !.appliedBefore = applied_patches]
    /\ nCalls' = nCalls + 1
    /\ UNCHANGED <<anndataImport, adx, scanpyImport, scpl, excepthook,
                   applied_patches, notebook_name, nPcaApply>>
    /\ UNCHANGED fileVars

(***************************************************************************)
(* Notebook files.  A file is missing, is not JSON, or is JSON text with   *)
(* an indentation; a JSON document has a metadata part and, when it is a   *)
(* notebook, a list of cells.                                              *)
(***************************************************************************)
Paths == {"in.ipynb", "out.ipynb"}

insert_index == 26

Missing == [kind |-> "missing", indent |-> 0, hasCells |-> FALSE,
            cells |-> <<>>, metadata |-> "none"]
Invalid == [kind |-> "invalid", indent |-> 0, hasCells |-> FALSE,
            cells |-> <<>>, metadata |-> "none"]

Cell(i, pat) ==
    [cell_type |-> IF i % (pat + 1) = 0 THEN "markdown" ELSE "code",
     execution_count |-> NoneVal, id |-> "cell", tag |-> i * pat]

compatibility_cell ==
    [cell_type |-> "code", execution_count |-> NoneVal,
     id |-> "pca-compatibility-fix", tag |-> 0]

Notebook(n, pat, ind, meta) ==
    [kind |-> "json", indent |-> ind, hasCells |-> TRUE,
     cells |-> [i \in 1..n |-> Cell(i, pat)], metadata |-> meta]

NoCellsDoc == [kind |-> "json", indent |-> 2, hasCells |-> FALSE,
               cells |-> <<>>, metadata |-> "python3"]

\* what an earlier pipeline run may have left at the output path
StaleOutput ==
    [kind |-> "json", indent |-> 1, hasCells |-> TRUE,
     cells |-> <<[cell_type |-> "code", execution_count |-> "1", id |-> "cell",
                  tag |-> 0]>>,
     metadata |-> "ir"]

InitialFiles ==
    {Notebook(n, pat, ind, "python3") : n \in 0..MaxCells, pat \in 1..2, ind \in {1, 2}}
    \cup {Missing, Invalid, NoCellsDoc}

\* json.load: the document of a JSON text, whatever its indentation.
json_load(file) ==
    [hasCells |-> file.hasCells, cells |-> file.cells, metadata |-> file.metadata]

\* json.dump(nb, f, indent=2)
json_dump(nb) ==
    [kind |-> "json", indent |-> 2, hasCells |-> nb.hasCells,
     cells |-> nb.cells, metadata |-> nb.metadata]

ListInsertAfter(l, index, x) ==
    IF index + 1 >= Len(l) THEN Append(l, x)
    ELSE SubSeq(l, 1, index + 1) \o <<x>> \o SubSeq(l, index + 2, Len(l))

\* list.insert(index, x) for 0 <= index; the model's sequences start at 1.
ListInsert(l, index, x) ==
    IF index >= Len(l) THEN Append(l, x)
    ELSE SubSeq(l, 1, index) \o <<x>> \o SubSeq(l, index + 1, Len(l))

insert_cell_inclusive(nb) ==
    IF insert_index <= Len(nb.cells)
    THEN [nb EXCEPT !.cells = ListInsert(@, insert_index, compatibility_cell)]
    ELSE nb

\* pca_compatibility_fix.py 56-61
insert_cell(nb) ==
    IF insert_index < Len(nb.cells)
    THEN [nb EXCEPT !.cells = ListInsert(@, insert_index, compatibility_cell)]
    ELSE nb

\* The result of a function working on the file system.
Res(f, e, r) == [fs |-> f, exc |-> e, ret |-> r]

add_pca_compatibility_cell(f, notebook_path, output_path, ro) ==
    IF f[notebook_path].kind = "missing"
    THEN Res(f, Exc("FileNotFoundError", <<"No", "such", "file">>), NoneVal)
    ELSE IF f[notebook_path].kind = "invalid"
    THEN Res(f, Exc("JSONDecodeError", <<"Expecting", "value">>), NoneVal)
    ELSE IF ~f[notebook_path].hasCells
    THEN Res(f, Exc("KeyError", <<"'cells'">>), NoneVal)
    ELSE IF output_path \in ro
    THEN Res(f, Exc("PermissionError", <<"Permission", "denied">>), NoneVal)
    ELSE Res([f EXCEPT ![output_path] = json_dump(insert_cell(json_load(f[notebook_path])))],
             NoExc, "True")

\* shutil.copy2(src, dst)
copy2(f, src, dst, ro) ==
    IF f[src].kind = "missing"
    THEN Res(f, Exc("FileNotFoundError", <<"No", "such", "file">>), NoneVal)
    ELSE IF src = dst
    THEN Res(f, Exc("SameFileError", <<"are", "the", "same", "file">>), NoneVal)
    ELSE IF dst \in ro
    THEN Res(f, Exc("PermissionError", <<"Permission", "denied">>), NoneVal)
    ELSE Res([f EXCEPT ![dst] = f[src]], NoExc, dst)

\* pca_compatibility_fix.py 69-84: the exit code and the files left behind.
\* An exception that leaves the script ends the process with code 1.
fix_main(f, argc, input_notebook, output_notebook, ro) ==
    IF argc # 3
    THEN [fs |-> f, exit |-> 1, exc |-> NoExc, ret |-> NoneVal, copied |-> FALSE]
    ELSE LET r == add_pca_compatibility_cell(f, input_notebook, output_notebook, ro) IN
         IF r.exc.type = "None"
         THEN [fs |-> r.fs, exit |-> 0, exc |-> NoExc, ret |-> r.ret, copied |-> FALSE]
         ELSE LET c == copy2(f, input_notebook, output_notebook, ro) IN
              [fs |-> c.fs, exit |-> 1, exc |-> r.exc, ret |-> NoneVal,
               copied |-> c.exc.type = "None"]

(***************************************************************************)
(* pca_safe_execution.py.  The script runs in a process of its own; env    *)
(* is what that process finds: whether pca_compat and papermill import,    *)
(* the state of scanpy, and the error the notebook's cells end in.         *)
(***************************************************************************)
Fresh(status, pcaAttr) ==
    [anndataImport |-> "missing", scanpyImport |-> status,
     adx |-> [read_elem_lazy |-> Absent, read_elem_as_dask |-> Absent],
     scpl |-> [pca |-> pcaAttr, _original_pca |-> Absent],
     excepthook |-> 0, applied |-> <<>>, name |-> NoneVal,
     invoked |-> {}, exc |-> NoExc]

CellErrors ==
    {NoExc,
     Exc("PapermillExecutionError", <<"KeyError:", "'pca'">>),
     Exc("PapermillExecutionError", <<"KeyError:", "'louvain'">>),
     Exc("PapermillExecutionError", <<"NameError:", "name", "'adata'">>),
     Exc("PapermillExecutionError", <<"PCA", "failed">>),
     Exc("DeadKernelError", <<"Kernel", "died">>)}

ExecEnv(pc, sc, attr, pm, ce) ==
    [pca_compat |-> pc, scanpy |-> sc, pcaAttr |-> attr, papermill |-> pm,
     cellError |-> ce]

\* pca_compat: "ok", "missing" (not on the path) or "no_numpy" (its
\* own "import numpy" fails)
ExecEnvs ==
    {ExecEnv("missing", "ok", orig_pca_fn, TRUE, NoExc),
     ExecEnv("no_numpy", "ok", orig_pca_fn, TRUE, NoExc),
     ExecEnv("ok", "broken", Absent, TRUE, NoExc),
     ExecEnv("ok", "ok", Absent, TRUE, NoExc),
     ExecEnv("ok", "missing", Absent, FALSE, NoExc),
     ExecEnv("ok", "ok", orig_pca_fn, FALSE, NoExc)}
    \cup {ExecEnv("ok", "ok", orig_pca_fn, TRUE, ce) : ce \in CellErrors}
    \cup {ExecEnv("ok", "missing", Absent, TRUE, NoExc)}

\* What papermill leaves at the output path: the notebook with its code
\* cells run, written by nbformat with indentation 1.
Executed(file) ==
    [file EXCEPT !.indent = 1,
                 !.cells = [i \in 1..Len(file.cells) |->
                              IF file.cells[i].cell_type = "code"
                              THEN [file.cells[i] EXCEPT !.execution_count = "1"]
                              ELSE file.cells[i]]]

\* pm.execute_notebook(notebook_path, output_path, kernel_name='python3')
execute_notebook(f, notebook_path, output_path, ro, cellError) ==
    IF f[notebook_path].kind = "missing"
    THEN Res(f, Exc("FileNotFoundError", <<"No", "such", "file">>), NoneVal)
    ELSE IF f[notebook_path].kind = "invalid"
    THEN Res(f, Exc("NotJSONError", <<"Notebook", "is", "not", "JSON">>), NoneVal)
    ELSE IF ~f[notebook_path].hasCells
    THEN Res(f, Exc("ValidationError", <<"'cells'", "is", "required">>), NoneVal)
    ELSE IF output_path \in ro
    THEN Res(f, Exc("PermissionError", <<"Permission", "denied">>), NoneVal)
    ELSE Res([f EXCEPT ![output_path] = Executed(f[notebook_path])], cellError, NoneVal)

pca_related_never(e) == FALSE

\* pca_safe_execution.py 33-43: the except clause's verdict on str(e).
pca_related(e) ==
    Contains("pca", LowerMsg(e.msg)) \/ Contains("keyerror", LowerMsg(e.msg))

\* pca_safe_execution.py 11-43
execute_with_pca_safety(f, notebook_path, output_path, ro, env) ==
    LET patched == patch_pca_compatibility(Fresh(env.scanpy, env.pcaAttr))
        r == IF env.pca_compat = "missing"
             THEN Res(f, Exc("ImportError", <<"No", "module", "named", "'pca_compat'">>),
                      NoneVal)
             ELSE IF env.pca_compat = "no_numpy"
             THEN Res(f, Exc("ImportError", <<"No", "module", "named", "'numpy'">>),
                      NoneVal)
             ELSE IF Raised(patched) THEN Res(f, patched.exc, NoneVal)
             ELSE IF ~env.papermill
             THEN Res(f, Exc("ImportError", <<"No", "module", "named", "'papermill'">>),
                      NoneVal)
             ELSE execute_notebook(f, notebook_path, output_path, ro, env.cellError)
    IN  IF r.exc.type = "None" THEN Res(r.fs, NoExc, "True")
        ELSE IF pca_related(r.exc) THEN Res(r.fs, r.exc, "True")
        ELSE Res(r.fs, r.exc, "False")

\* pca_safe_execution.py 45-51
exec_main(f, argc, input_notebook, output_notebook, ro, env) ==
    IF argc # 3
    THEN [fs |-> f, exit |-> 1, exc |-> NoExc, ret |-> NoneVal, copied |-> FALSE]
    ELSE LET r == execute_with_pca_safety(f, input_notebook, output_notebook, ro, env) IN
         [fs |-> r.fs, exit |-> IF r.ret = "True" THEN 0 ELSE 1, exc |-> r.exc,
          ret |-> r.ret, copied |-> FALSE]

(***************************************************************************)
(* The command-line scripts: initial states and one action per script.     *)
(***************************************************************************)
NoRun == [script |-> "none", argc |-> 0, input |-> "in.ipynb", output |-> "out.ipynb",
          exit |-> 0, exc |-> NoExc, ret |-> NoneVal, copied |-> FALSE]

InitFiles ==
    /\ \E a \in InitialFiles, b \in {Missing, StaleOutput} :
          fs = [p \in Paths |-> IF p = "in.ipynb" THEN a ELSE b]
    /\ unwritable \in {{}, {"out.ipynb"}}
    /\ fsBefore = fs
    /\ run = NoRun
    /\ nRuns = 0

Finish(script, argc, inp, out, m) ==
    /\ nRuns < MaxRuns
    /\ nRuns' = nRuns + 1
    /\ fsBefore' = fs
    /\ fs' = m.fs
    /\ run' = [script |-> script, argc |-> argc, input |-> inp, output |-> out,
               exit |-> m.exit, exc |-> m.exc, ret |-> m.ret, copied |-> m.copied]
    /\ UNCHANGED unwritable
    /\ UNCHANGED patchVars

RunPcaCompatibilityFix ==
    \E argc \in {2, 3}, inp \in Paths, out \in Paths :
        /\ argc = 2 => inp = out
        /\ Finish("pca_compatibility_fix.py", argc, inp, out,
               fix_main(fs, argc, inp, out, unwritable))

RunPcaSafeExecution ==
    \E argc \in {2, 3}, inp \in Paths, out \in Paths, env \in ExecEnvs :
        /\ argc = 2 => inp = out /\ env = ExecEnv("ok", "ok", orig_pca_fn, TRUE, NoExc)
        /\ Finish("pca_safe_execution.py", argc, inp, out,
               exec_main(fs, argc, inp, out, unwritable, env))

(***************************************************************************)
(* Specifications: the interpreter with its patches, and the scripts       *)
(* working on notebook files.                                              *)
(***************************************************************************)
IdleFiles ==
    /\ fs = [p \in Paths |-> Missing]
    /\ unwritable = {}
    /\ fsBefore = fs
    /\ run = NoRun
    /\ nRuns = 0

IdlePatch ==
    /\ anndataImport = "missing"
    /\ adx = [read_elem_lazy |-> Absent, read_elem_as_dask |-> Absent]
    /\ scanpyImport = "missing"
    /\ scpl = [pca |-> Absent, _original_pca |-> Absent]
    /\ excepthook = 0
    /\ applied_patches = <<>>
    /\ notebook_name = NoneVal
    /\ call = NoCall
    /\ nCalls = 0
    /\ nPcaApply = 0

Init == InitPatch /\ IdleFiles

Next ==
    \/ CallPatchAnndata
    \/ CallPatchPcaCompatibility
    \/ CallApplyAnndataCompatibility
    \/ CallApplyPcaCompatibility
    \/ CallApplyGeneralResilience
    \/ CallApplyNotebookSpecificPatches
    \/ CallApplyAllPatches
    \/ CallSetupCompatibility
    \/ RunStartupCompat
    \/ CallPlottingPca

Spec == Init /\ [][Next]_vars

InitScripts == InitFiles /\ IdlePatch

NextScripts ==
    \/ RunPcaCompatibilityFix
    \/ RunPcaSafeExecution

SpecScripts == InitScripts /\ [][NextScripts]_vars

(***************************************************************************)
(* Properties of the notebook scripts (checked under SpecScripts).         *)
(***************************************************************************)
FixRan == run.script = "pca_compatibility_fix.py" /\ run.argc = 3
ExecRan == run.script = "pca_safe_execution.py" /\ run.argc = 3

\* The fix script was given a notebook with a cell list and an output path
\* it can write.
FixRanOnNotebook ==
    /\ FixRan
    /\ fsBefore[run.input].kind = "json"
    /\ fsBefore[run.input].hasCells
    /\ run.output \notin unwritable

\* C1: given a notebook with at least 27 cells, add_pca_compatibility_cell
\* writes a document with one more cell, the compatibility cell at index 26,
\* the input's cells around it in the same order with the same content, and
\* the rest of the document unchanged.
C1_InsertAt26 ==
    (FixRanOnNotebook /\ Len(fsBefore[run.input].cells) >= insert_index + 1) =>
        LET inp == fsBefore[run.input]
            out == fs[run.output]
        IN  /\ run.exc = NoExc /\ run.ret = "True"
            /\ out.kind = "json" /\ out.hasCells
            /\ Len(out.cells) = Len(inp.cells) + 1
            /\ out.cells[insert_index + 1] = compatibility_cell
            /\ out.cells[insert_index + 1].id = "pca-compatibility-fix"
            /\ \A i \in 1..insert_index : out.cells[i] = inp.cells[i]
            /\ \A i \in (insert_index + 1)..Len(inp.cells) :
                   out.cells[i + 1] = inp.cells[i]
            /\ out.metadata = inp.metadata

C1_Witness ==
    /\ FixRanOnNotebook
    /\ Len(fsBefore[run.input].cells) = insert_index + 2
    /\ fsBefore[run.input].indent = 1
    /\ run.input # run.output
    /\ Len(fs[run.output].cells) = insert_index + 3
    /\ fs[run.output].cells[insert_index + 1] = compatibility_cell

\* C2: given a notebook with fewer than 27 cells (26 and 0 included),
\* add_pca_compatibility_cell inserts nothing: the document written equals
\* the input document, and the function returns True.
C2_ShortUnchanged ==
    (FixRanOnNotebook /\ Len(fsBefore[run.input].cells) < insert_index + 1) =>
        LET inp == fsBefore[run.input]
            out == fs[run.output]
        IN  /\ run.exc = NoExc /\ run.ret = "True" /\ run.exit = 0
            /\ out.kind = "json" /\ out.hasCells
            /\ out.cells = inp.cells
            /\ out.metadata = inp.metadata

C2_Witness ==
    /\ FixRanOnNotebook
    /\ Len(fsBefore[run.input].cells) = insert_index
    /\ run.input # run.output
    /\ fs[run.output].cells = fsBefore[run.input].cells
    /\ run.ret = "True"

CopyPossible ==
    /\ fsBefore[run.input].kind # "missing"
    /\ run.input # run.output
    /\ run.output \notin unwritable

\* C9 as stated: each script exits 0 exactly when its operation raised
\* nothing and 1 when it raised, whatever the message, and on failure the
\* output path holds a copy of the input file (read here as: whenever such
\* a copy can be made at all; runs in which the PCA patch itself raised are
\* left out).
C9_Original ==
    ((FixRan \/ ExecRan) /\ run.exc.type \notin {"AttributeError", "RuntimeError"}) =>
        /\ run.exit = 0 <=> run.exc = NoExc
        /\ run.exit = 1 <=> run.exc # NoExc
        /\ (run.exc # NoExc /\ CopyPossible) => fs[run.output] = fsBefore[run.input]

\* C9 amended: the fix script exits 0 exactly when the insertion raised
\* nothing and 1 otherwise, and on failure the output path holds a copy of
\* the input file whenever the copy can be made (the files are left alone
\* otherwise); the execution script exits 0 when execution raised nothing or
\* raised an exception whose lower-cased message contains "pca" or
\* "keyerror", and 1 on any other exception.
C9_ExitCodes ==
    /\ FixRan =>
        /\ run.exit \in {0, 1}
        /\ run.exit = 0 <=> run.exc = NoExc
        /\ (run.exc # NoExc /\ CopyPossible) => fs[run.output] = fsBefore[run.input]
        /\ (run.exc # NoExc /\ ~CopyPossible) => fs = fsBefore
    /\ ExecRan =>
        /\ run.exit \in {0, 1}
        /\ run.exit = 0 <=>
              \/ run.exc = NoExc
              \/ \E i \in 1..Len(run.exc.msg) :
                    run.exc.msg[i] \in {"'pca'", "PCA", "'pca_compat'", "KeyError:"}

C9_Witness ==
    /\ ExecRan
    /\ run.exc = Exc("PapermillExecutionError", <<"PCA", "failed">>)
    /\ run.exit = 0

(***************************************************************************)
(* Properties of the patches (checked under Spec).                         *)
(***************************************************************************)
Count(x, l) == Cardinality({i \in 1..Len(l) : l[i] = x})

AliasPatchRan ==
    call.invoked \cap {"patch_anndata", "apply_anndata_compatibility"} # {}

\* C3: when read_elem_lazy exists in anndata.experimental and
\* read_elem_as_dask does not, the alias patch leaves read_elem_as_dask bound
\* to the same callable as read_elem_lazy, whose binding is unchanged.
C3_AliasBound ==
    (/\ AliasPatchRan
     /\ anndataImport = "ok"
     /\ call.adxBefore.read_elem_lazy # Absent
     /\ call.adxBefore.read_elem_as_dask = Absent) =>
        /\ adx.read_elem_as_dask = call.adxBefore.read_elem_lazy
        /\ adx.read_elem_lazy = call.adxBefore.read_elem_lazy

C3_Witness ==
    /\ call.fn = "patch_anndata"
    /\ anndataImport = "ok"
    /\ call.adxBefore = [read_elem_lazy |-> read_elem_lazy_fn,
                         read_elem_as_dask |-> Absent]
    /\ adx.read_elem_as_dask = read_elem_lazy_fn

\* C4: when read_elem_as_dask already exists, the alias patch changes
\* nothing: the old name keeps its binding and applied_patches gains no
\* 'anndata_read_elem_as_dask'; and the patch applied twice in a row leaves
\* the module as the patch applied once does.
C4_AliasNoOverwrite ==
    /\ (AliasPatchRan /\ call.adxBefore.read_elem_as_dask # Absent) =>
          /\ adx = call.adxBefore
          /\ Count("anndata_read_elem_as_dask", applied_patches)
               = Count("anndata_read_elem_as_dask", call.appliedBefore)
    /\ patch_anndata(patch_anndata(Cur)).adx = patch_anndata(Cur).adx
    /\ LET once == apply_anndata_compatibility(Cur)
           twice == apply_anndata_compatibility(once)
       IN  twice.adx = once.adx /\ twice.applied = once.applied

C4_Witness ==
    /\ call.fn = "apply_anndata_compatibility"
    /\ anndataImport = "ok"
    /\ call.adxBefore = [read_elem_lazy |-> read_elem_lazy_fn,
                         read_elem_as_dask |-> legacy_dask_fn]
    /\ adx.read_elem_as_dask = legacy_dask_fn
    /\ applied_patches = call.appliedBefore

Patched == scpl.pca \in {safe_pca_unified, safe_pca_compat}

\* KeyError messages that mention the 'pca' key
PcaKeyMessages == {<<"'pca'">>, <<"'X_pca'">>}

\* C5: a call of the patched scanpy.plotting.pca returns the wrapped
\* function's result when it returns; returns None when it raises a KeyError
\* mentioning 'pca'; and lets any other exception through unchanged.
C5_SafePca ==
    (call.fn = "scanpy.plotting.pca" /\ Patched) =>
        /\ call.orig.exc = NoExc => (call.exc = NoExc /\ call.ret = call.orig.ret)
        /\ (call.orig.exc.type = "KeyError" /\ call.orig.exc.msg \in PcaKeyMessages)
              => (call.exc = NoExc /\ call.ret = NoneVal)
        /\ (/\ call.orig.exc # NoExc
            /\ ~(call.orig.exc.type = "KeyError" /\ call.orig.exc.msg \in PcaKeyMessages))
              => call.exc = call.orig.exc

C5_Witness ==
    /\ call.fn = "scanpy.plotting.pca"
    /\ Patched
    /\ call.orig.exc = Exc("KeyError", <<"'pca'">>)
    /\ call.exc = NoExc
    /\ call.ret = NoneVal

SpecificPatches == {"apply_pca_compatibility", "apply_anndata_compatibility"}

\* C6 as stated: every value passed to setup_compatibility that is not a
\* recognized name gets only apply_general_resilience (a call that passes
\* no name at all, or that ends in an exception, is left out).
C6_Original ==
    (/\ call.fn = "setup_compatibility"
     /\ call.arg # NoneVal
     /\ call.exc = NoExc
     /\ call.arg \notin RecognizedNames) =>
        /\ call.invoked \cap SpecificPatches = {}
        /\ "apply_general_resilience" \in call.invoked

\* C6 amended: every non-empty name passed to setup_compatibility that is
\* not a recognized name gets only apply_general_resilience, whatever calls
\* came before on the shared manager.
C6_UnrecognizedOnlyGeneral ==
    (/\ call.fn \in {"setup_compatibility", "startup_compat"}
     /\ call.arg \notin RecognizedNames
     /\ call.arg \notin {NoneVal, ""}) =>
        /\ call.invoked \cap SpecificPatches = {}
        /\ "apply_general_resilience" \in call.invoked
        /\ "apply_all_patches" \notin call.invoked
        /\ applied_patches = Append(call.appliedBefore, "general_resilience")

C6_Witness ==
    /\ call.fn = "setup_compatibility"
    /\ call.arg = Nb02
    /\ call.nameBefore = Nb01
    /\ applied_patches = Append(call.appliedBefore, "general_resilience")

Given(v) == v \notin {NoneVal, ""}

\* C7 as stated: the positional argument overrides NOTEBOOK_NAME (empty
\* values of either are left out).
C7_Original ==
    (call.fn = "startup_compat" /\ call.env # "" /\ call.argv1 # "") =>
        /\ (Given(call.env) /\ Given(call.argv1) /\ call.env # call.argv1)
              => call.arg = call.argv1
        /\ (Given(call.env) /\ ~Given(call.argv1)) => call.arg = call.env
        /\ (~Given(call.env) /\ Given(call.argv1)) => call.arg = call.argv1
        /\ (~Given(call.env) /\ ~Given(call.argv1)) => call.arg = NoneVal

\* C7 amended: NOTEBOOK_NAME, when set, is the name used, and the
\* positional argument is used only when the variable is unset; an empty or
\* missing name makes the script call setup_compatibility with no name.
C7_EnvFirst ==
    call.fn = "startup_compat" =>
        /\ (call.env # NoneVal /\ call.env # "") => call.arg = call.env
        /\ call.env = "" => call.arg = NoneVal
        /\ (call.env = NoneVal /\ Given(call.argv1)) => call.arg = call.argv1
        /\ (call.env = NoneVal /\ ~Given(call.argv1)) => call.arg = NoneVal
        /\ call.arg # NoneVal => notebook_name = call.arg
        /\ call.arg = NoneVal => notebook_name = call.nameBefore

C7_Witness ==
    /\ call.fn = "startup_compat"
    /\ call.env = Nb04
    /\ call.argv1 = Nb01
    /\ call.arg = Nb04
    /\ notebook_name = Nb04

PatchFunctions ==
    {"patch_anndata", "patch_pca_compatibility", "apply_anndata_compatibility",
     "apply_pca_compatibility", "apply_general_resilience",
     "apply_notebook_specific_patches", "apply_all_patches", "setup_compatibility"}

\* C8: no patch function lets an exception out: whatever fails while it
\* looks for its dependency or its attribute, it returns normally.
C8_NeverRaises ==
    call.fn \in PatchFunctions => call.exc = NoExc

\* C10: with scanpy available, after any sequence of apply_pca_compatibility
\* and patch_pca_compatibility calls, _original_pca is still the original
\* plotting function, a call of the patched pca runs it exactly once behind
\* a single wrapper, and applied_patches holds one 'pca_plotting_safety' per
\* apply_pca_compatibility call.
C10_Reapply ==
    (scanpyImport = "ok" /\ scpl.pca # Absent) =>
        /\ scpl._original_pca \in {Absent, orig_pca_fn}
        /\ Patched => scpl._original_pca = orig_pca_fn
        /\ \A orig \in OrigBehaviours :
              LET r == Invoke(scpl.pca, scpl, orig, MaxDepth)
              IN  r.origCalls = 1 /\ r.frames <= 2
        /\ call.fn = "scanpy.plotting.pca" => (call.origCalls = 1 /\ call.frames <= 2)
        /\ Count("pca_plotting_safety", applied_patches) = nPcaApply

C10_Witness ==
    /\ call.fn = "scanpy.plotting.pca"
    /\ scpl.pca = safe_pca_compat
    /\ nPcaApply = 1
    /\ scpl._original_pca = orig_pca_fn
    /\ call.origCalls = 1
    /\ call.frames = 2

====
